---- MODULE Spec2Model ----
(***************************************************************************)
(* AI Fitness Coach (src/main.py): one Streamlit session.                  *)
(*                                                                         *)
(* The state is st.session_state plus what the last run of main()          *)
(* displayed.  Every action is one run of main(): a user event followed by *)
(* the whole script, from the get-or-init of the client down to the page   *)
(* function and the generation it triggers.                                *)
(***************************************************************************)
EXTENDS Integers, Sequences, FiniteSets, TLC

VARIABLES
    credential,                 \* st.secrets / genai set-up, as init_gemini_client finds it
    gemini_client,              \* st.session_state.gemini_client
    current_page,               \* st.session_state.current_page
    training_data,              \* st.session_state.training_data
    nutrition_data,             \* st.session_state.nutrition_data
    generated_training_plan,    \* st.session_state.generated_training_plan
    generated_nutrition_plan,   \* st.session_state.generated_nutrition_plan
    page,                       \* the sidebar radio's selection
    errors,                     \* the st.error messages of the last run, in order
    calls,                      \* what the last run called, and how often
    exchange,                   \* the generation call of the last run, if it made one
    event,                      \* the user event that caused the last run
    download,                   \* the st.download_button of the last run, if it showed one
    plan_source,                \* per domain, the prompt whose completion the stored plan is
    calc                        \* the calculator's last computation

vars == <<credential, gemini_client, current_page, training_data, nutrition_data,
          generated_training_plan, generated_nutrition_plan, page, errors, calls,
          exchange, event, download, plan_source, calc>>

session_state == <<gemini_client, current_page, training_data, nutrition_data,
                   generated_training_plan, generated_nutrition_plan>>

-----------------------------------------------------------------------------
(* Bounds of the model. *)

\* The most options a user picks in one multiselect.
MaxSel == 1

\* How far the calculator's inputs range around 70 kg, 170 cm and 25 years.
Spread == 1

-----------------------------------------------------------------------------
(* Python values.  None is falsy, a str is wrapped so that it never compares *)
(* with None, and a GeminiClient object is truthy.                          *)

None == <<>>
Str(text) == <<text>>
GeminiClientObject == <<"GeminiClient">>

\* A session key that is not set, and a key that holds a value.
Absent == <<>>
Some(v) == <<v>>

\* str(x) of an int.
str(n) == ToString(n)

\* dict.get(key, default)
get(data, key, default) == IF key \in DOMAIN data THEN data[key] ELSE default

\* sep.join(list)
RECURSIVE join(_, _)
join(sep, list) ==
    IF list = <<>> THEN ""
    ELSE IF Len(list) = 1 THEN list[1]
    ELSE list[1] \o sep \o join(sep, Tail(list))

-----------------------------------------------------------------------------
(* Prompt creation functions: the f-strings, one element per line. *)

create_nutrition_prompt(data) ==
  <<
    "",
    "Create a comprehensive, personalized nutrition plan based on the following information:",
    "",
    "PERSONAL DETAILS:",
    "- Age: " \o str(data.age) \o " years",
    "- Gender: " \o data.gender,
    "- Height: " \o str(data.height) \o " cm",
    "- Current Weight: " \o str(data.weight) \o " kg",
    "- Target Weight: " \o str(data.target_weight) \o " kg",
    "- Activity Level: " \o data.activity_level,
    "- Health Conditions: " \o get(data, "health_conditions", "None"),
    "",
    "NUTRITION GOALS:",
    "- Primary Goal: " \o data.primary_goal,
    "- Timeline: " \o data.timeline,
    "",
    "DIETARY PREFERENCES:",
    "- Diet Type: " \o data.diet_type,
    "- Food Allergies/Intolerances: " \o join(", ", get(data, "food_allergies", <<>>)),
    "- Foods Disliked: " \o join(", ", get(data, "dislikes", <<>>)),
    "- Food Preferences: " \o join(", ", get(data, "preferences", <<>>)),
    "",
    "LIFESTYLE FACTORS:",
    "- Meals per Day: " \o str(data.meals_per_day),
    "- Cooking Skill: " \o data.cooking_skill,
    "- Available Cooking Time: " \o data.cooking_time,
    "- Weekly Budget: " \o data.budget,
    "- Meal Prep Preference: " \o data.meal_prep,
    "- Eating Schedule: " \o get(data, "eating_schedule", "Flexible"),
    "- Kitchen Equipment: " \o join(", ", get(data, "kitchen_equipment", <<>>)),
    "- Shopping Frequency: " \o data.shopping_frequency,
    "- Current Supplements: " \o get(data, "supplements", "None"),
    "",
    "SPECIAL NOTES: " \o get(data, "special_notes", "None"),
    "",
    "Please provide:",
    "1. Daily calorie target and macronutrient breakdown",
    "2. Sample meal plan for one day",
    "3. Weekly meal prep suggestions",
    "4. Hydration recommendations",
    "5. Specific tips based on their goals and preferences",
    "6. Progress tracking suggestions",
    "",
    "Format the response in clear sections with headers and bullet points for easy reading.",
    ""
  >>

create_training_prompt(data) ==
  <<
    "",
    "Create a comprehensive, personalized training plan based on the following information:",
    "",
    "PERSONAL DETAILS:",
    "- Age: " \o str(data.age) \o " years",
    "- Gender: " \o data.gender,
    "- Height: " \o str(data.height) \o " cm",
    "- Weight: " \o str(data.weight) \o " kg",
    "- Current Fitness Level: " \o data.fitness_level,
    "- Activity Level: " \o data.activity_level,
    "- Medical Conditions/Injuries: " \o get(data, "medical_conditions", "None"),
    "",
    "FITNESS GOALS:",
    "- Primary Goal: " \o data.primary_goal,
    "- Secondary Goals: " \o join(", ", get(data, "secondary_goals", <<>>)),
    "- Target Timeline: " \o data.timeline,
    "",
    "WORKOUT PREFERENCES:",
    "- Workout Days per Week: " \o str(data.workout_days),
    "- Time per Session: " \o data.time_per_session \o " minutes",
    "- Workout Location: " \o data.workout_location,
    "- Available Equipment: " \o join(", ", get(data, "equipment", <<>>)),
    "- Preferred Workout Types: " \o join(", ", get(data, "workout_types", <<>>)),
    "- Exercise Experience: " \o join(", ", get(data, "exercise_experience", <<>>)),
    "",
    "SCHEDULE & PREFERENCES:",
    "- Preferred Workout Time: " \o get(data, "workout_time", "Flexible"),
    "- Rest Day Preferences: " \o get(data, "rest_days", "Flexible"),
    "",
    "SPECIAL NOTES: " \o get(data, "special_notes", "None"),
    "",
    "Please provide:",
    "1. Weekly training schedule with specific days",
    "2. Detailed workout routines for each training day",
    "3. Warm-up and cool-down recommendations",
    "4. Exercise descriptions and proper form tips",
    "5. Progressive overload suggestions",
    "6. Recovery and rest recommendations",
    "7. Progress tracking methods",
    "",
    "Format the response in clear sections with headers and detailed exercise instructions.",
    ""
  >>

-----------------------------------------------------------------------------
(* The views, and the messages st.error shows. *)

Home == "Home"
TrainingPlan == "Training Plan"
NutritionPlan == "Nutrition Plan"
Pages == {Home, TrainingPlan, NutritionPlan}

MsgContentError == "Error generating content"
MsgKeyNotFound == "Gemini API key not found in secrets"
MsgInitError == "Error initializing Gemini client"
MsgUnavailable == "AI service is not available"
MsgNoTrainingData == "No training data found"
MsgTrainingFailed == "Failed to generate training plan"
MsgTrainingException == "An error occurred while generating your training plan"
MsgKitchenEquipment == "Please select at least one kitchen equipment option"
MsgNoNutritionData == "No nutrition data found"
MsgNutritionFailed == "Failed to generate nutrition plan"
MsgNutritionException == "An error occurred while generating your nutrition plan"

-----------------------------------------------------------------------------
(* The forms: each widget's default, and the inputs a user may submit. *)

TrainingWidgetDefaults ==
    [age |-> 25, gender |-> "Male", height |-> 170, weight |-> 70,
     fitness_level |-> "Beginner", activity_level |-> "Sedentary",
     medical_conditions |-> "", primary_goal |-> "Weight Loss",
     secondary_goals |-> <<>>, timeline |-> "1-2 months", workout_days |-> 4,
     time_per_session |-> "15-30", workout_location |-> "Home",
     equipment |-> <<>>, workout_types |-> <<>>, workout_time |-> "Early Morning",
     rest_days |-> "", exercise_experience |-> <<>>, special_notes |-> ""]

NutritionWidgetDefaults ==
    [age |-> 25, gender |-> "Male", height |-> 170, weight |-> 70,
     target_weight |-> 70, activity_level |-> "Sedentary",
     health_conditions |-> "", primary_goal |-> "Weight Loss",
     timeline |-> "1-2 months", diet_type |-> "No Specific Diet",
     food_allergies |-> <<>>, dislikes |-> <<>>, preferences |-> <<>>,
     meals_per_day |-> 3, cooking_skill |-> "Beginner",
     cooking_time |-> "15 minutes or less", budget |-> "Under $50",
     meal_prep |-> "No meal prep", eating_schedule |-> "",
     kitchen_equipment |-> <<>>, shopping_frequency |-> "Daily",
     supplements |-> "", special_notes |-> ""]

\* The first two options of each multiselect, in the order the form lists them.
SecondaryGoalOptions == <<"Improve Posture", "Increase Energy">>
EquipmentOptions == <<"No Equipment (Bodyweight)", "Dumbbells">>
WorkoutTypeOptions == <<"Strength Training", "Cardio/HIIT">>
ExerciseExperienceOptions == <<"Weight Training", "Running/Cardio">>
FoodAllergyOptions == <<"None", "Nuts">>
DislikeOptions == <<"Seafood", "Spicy Food">>
PreferenceOptions == <<"Organic Foods", "Locally Sourced">>
KitchenEquipmentOptions == <<"Basic stove/oven", "Microwave">>

\* What st.multiselect returns: the picked options, each once, in the order picked.
Selections(options) ==
    LET offered == {options[i] : i \in DOMAIN options}
    IN  {s \in UNION {[1..n -> offered] : n \in 0..MaxSel} :
            \A i, j \in DOMAIN s : i # j => s[i] # s[j]}

\* What a text_area or text_input returns: blank when left alone.
Texts == {"", "as entered"}

\* Forms in which the user touches one multiselect and leaves the rest as offered.
TrainingForms ==
    {[TrainingWidgetDefaults EXCEPT !.equipment = e] :
        e \in Selections(EquipmentOptions)}

NutritionForms ==
    {[NutritionWidgetDefaults EXCEPT !.kitchen_equipment = k] :
        k \in Selections(KitchenEquipmentOptions)}

\* Forms in which the user touches every multiselect and every text field.
AllTrainingForms ==
    {[TrainingWidgetDefaults EXCEPT
         !.secondary_goals = l[1], !.equipment = l[2], !.workout_types = l[3],
         !.exercise_experience = l[4], !.medical_conditions = t[1],
         !.rest_days = t[2], !.special_notes = t[3]] :
        l \in Selections(SecondaryGoalOptions) \X Selections(EquipmentOptions)
              \X Selections(WorkoutTypeOptions) \X Selections(ExerciseExperienceOptions),
        t \in Texts \X Texts \X Texts}

AllNutritionForms ==
    {[NutritionWidgetDefaults EXCEPT
         !.food_allergies = l[1], !.dislikes = l[2], !.preferences = l[3],
         !.kitchen_equipment = l[4], !.health_conditions = t[1],
         !.eating_schedule = t[2], !.supplements = t[3], !.special_notes = t[4]] :
        l \in Selections(FoodAllergyOptions) \X Selections(DislikeOptions)
              \X Selections(PreferenceOptions) \X Selections(KitchenEquipmentOptions),
        t \in Texts \X Texts \X Texts \X Texts}

-----------------------------------------------------------------------------
(* The remote service and the client. *)

\* What the deployment offers init_gemini_client: a usable key, no key, or a
\* key with which constructing the client raises.
Credentials == {"ok", "missing", "invalid"}

\* What the remote service does with one attempt: it raises, or returns a text.
CompletionTexts == {"", "plan A", "plan B"}
ServiceOutcomes ==
    {[raises |-> TRUE, text |-> ""]} \cup
    {[raises |-> FALSE, text |-> t] : t \in CompletionTexts}

\* generate_content without its try/except: the service's exception reaches the caller.
generate_content_unguarded(outcome) ==
    [raised   |-> outcome.raises,
     value    |-> IF outcome.raises THEN None ELSE Str(outcome.text),
     called   |-> 1,
     attempts |-> 1,
     errors   |-> <<>>]

\* generate_content with a second attempt after a failed one.
generate_content_retrying(outcome) ==
    [raised   |-> FALSE,
     value    |-> IF outcome.raises THEN None ELSE Str(outcome.text),
     called   |-> 1,
     attempts |-> IF outcome.raises THEN 2 ELSE 1,
     errors   |-> IF outcome.raises THEN <<MsgContentError>> ELSE <<>>]

\* GeminiClient.generate_content: one attempt; a raise becomes st.error and None.
generate_content(outcome) ==
    [raised   |-> FALSE,
     value    |-> IF outcome.raises THEN None ELSE Str(outcome.text),
     called   |-> 1,
     attempts |-> 1,
     errors   |-> IF outcome.raises THEN <<MsgContentError>> ELSE <<>>]

\* init_gemini_client: the client, or st.error and None.
init_gemini_client(cred) ==
    CASE cred = "ok"      -> [client |-> GeminiClientObject, errors |-> <<>>]
      [] cred = "missing" -> [client |-> None, errors |-> <<MsgKeyNotFound>>]
      [] OTHER            -> [client |-> None, errors |-> <<MsgInitError>>]

\* `if not st.session_state.get('gemini_client')` in place of `not in`.
needs_init_when_falsy(client_key) == client_key = Absent \/ client_key[1] = None

\* `if 'gemini_client' not in st.session_state`
needs_init(client_key) == client_key = Absent

\* The availability check left out.
client_available_unchecked(client_key) == TRUE

\* `if not st.session_state.get('gemini_client')`, negated
client_available(client_key) == client_key # Absent /\ client_key[1] # None

\* The required-field check left out.
kitchen_equipment_unchecked(kitchen_equipment) == TRUE

\* `if not kitchen_equipment`, negated
kitchen_equipment_selected(kitchen_equipment) == kitchen_equipment # <<>>

\* `if response is not None:` in place of `if response:`.
response_ok_not_none(response) == response # None

\* The response stored whatever it is.
response_ok_always(response) == TRUE

\* `if response:`
response_ok(response) == response # None /\ response # Str("")

\* st.session_state.gemini_client.generate_content(prompt): of None it raises.
call_client(client_key, outcome) ==
    IF client_key # Absent /\ client_key[1] = GeminiClientObject
    THEN generate_content(outcome)
    ELSE [raised |-> TRUE, value |-> None, called |-> 0, attempts |-> 0, errors |-> <<>>]

-----------------------------------------------------------------------------
(* The downloadable plan. *)

\* What datetime.datetime.now() may return: two instants either side of midnight.
Clock ==
    << [year |-> 2025, month |-> 12, day |-> 31, hour |-> 23, minute |-> 59, second |-> 59],
       [year |-> 2026, month |-> 1, day |-> 1, hour |-> 0, minute |-> 0, second |-> 5] >>

\* strftime's zero-padded fields.
pad2(n) == IF n < 10 THEN "0" \o str(n) ELSE str(n)
pad4(n) ==
    IF n < 10 THEN "000" \o str(n)
    ELSE IF n < 100 THEN "00" \o str(n)
    ELSE IF n < 1000 THEN "0" \o str(n)
    ELSE str(n)

\* now.strftime('%Y-%m-%d %H:%M:%S')
strftime_timestamp(now) ==
    pad4(now.year) \o "-" \o pad2(now.month) \o "-" \o pad2(now.day) \o " "
        \o pad2(now.hour) \o ":" \o pad2(now.minute) \o ":" \o pad2(now.second)

\* now.strftime('%Y%m%d')
strftime_date(now) == pad4(now.year) \o pad2(now.month) \o pad2(now.day)

\* str.strip(), on a text held one element per line whose first and last lines
\* with content have no blanks at their ends.
IsBlank(line) == line \in {"", "                    "}
RECURSIVE strip(_)
strip(lines) ==
    IF lines = <<>> THEN lines
    ELSE IF IsBlank(Head(lines)) THEN strip(Tail(lines))
    ELSE IF IsBlank(lines[Len(lines)]) THEN strip(SubSeq(lines, 1, Len(lines) - 1))
    ELSE lines

TrainingTitle == "PERSONALIZED TRAINING PLAN"
NutritionTitle == "PERSONALIZED NUTRITION PLAN"

\* plan_text: the f-string of lines 465-473 and 773-781, stripped.
plan_text(title, now, response) ==
    strip(<< "",
             title,
             "Generated on: " \o strftime_timestamp(now),
             "",
             response[1],
             "",
             "---",
             "Generated by AI Fitness Coach",
             "                    " >>)

\* The file name without zero padding: '%Y%-m%-d'.
plan_file_name_unpadded(domain, now) ==
    domain \o "_plan_" \o str(now.year) \o str(now.month) \o str(now.day) \o ".txt"

\* file_name=f"training_plan_{...strftime('%Y%m%d')}.txt", and the nutrition one.
plan_file_name(domain, now) == domain \o "_plan_" \o strftime_date(now) \o ".txt"

\* st.download_button(label, data, file_name, mime)
download_button(data, file_name) ==
    [label |-> "Download Plan", data |-> data, file_name |-> file_name,
     mime |-> "text/plain"]

-----------------------------------------------------------------------------
(* One run of main(). *)

NoCalls == [init |-> 0, create_prompt |-> 0, generate_content |-> 0, attempts |-> 0]

Event(op, form) == [op |-> op, form |-> form]

\* main, lines 134-135: get-or-init of the client.
InitResult == init_gemini_client(credential)
InitCalls == IF needs_init(gemini_client) THEN 1 ELSE 0
InitErrors == IF needs_init(gemini_client) THEN InitResult.errors ELSE <<>>
MainInit ==
    gemini_client' = IF needs_init(gemini_client)
                     THEN Some(InitResult.client)
                     ELSE gemini_client

\* main, lines 156-159: the sidebar's status indicator.
api_status(client_key) ==
    IF client_key # Absent /\ client_key[1] # None
    THEN "AI Service Connected"
    ELSE "AI Service Unavailable"

\* What a page shows when nothing was submitted: the forms' availability check.
show_page(p) ==
    IF p \in {TrainingPlan, NutritionPlan} /\ ~client_available(gemini_client')
    THEN <<MsgUnavailable>>
    ELSE <<>>

\* A run in which no form is submitted.
Render(ev, p) ==
    /\ MainInit
    /\ page' = p
    /\ errors' = InitErrors \o show_page(p)
    /\ calls' = [NoCalls EXCEPT !.init = InitCalls]
    /\ exchange' = Absent
    /\ download' = Absent
    /\ event' = ev
    /\ UNCHANGED <<credential, training_data, nutrition_data,
                   generated_training_plan, generated_nutrition_plan,
                   plan_source, calc>>

\* generate_training_plan, reading the training_data the caller has just stored.
generate_training_plan(outcome) ==
    IF training_data' = Absent
    THEN /\ errors' = InitErrors \o <<MsgNoTrainingData>>
         /\ calls' = [NoCalls EXCEPT !.init = InitCalls]
         /\ exchange' = Absent
         /\ download' = Absent
         /\ UNCHANGED <<generated_training_plan, plan_source>>
    ELSE LET prompt == create_training_prompt(training_data'[1])
             r == call_client(gemini_client', outcome)
         IN  /\ calls' = [init |-> InitCalls, create_prompt |-> 1,
                          generate_content |-> r.called, attempts |-> r.attempts]
             /\ exchange' = IF r.called = 0 THEN Absent
                            ELSE Some([prompt |-> prompt, outcome |-> outcome,
                                       raised |-> r.raised, response |-> r.value])
             /\ IF r.raised
                THEN /\ errors' = InitErrors \o r.errors \o <<MsgTrainingException>>
                     /\ download' = Absent
                     /\ UNCHANGED <<generated_training_plan, plan_source>>
                ELSE IF response_ok(r.value)
                THEN /\ errors' = InitErrors \o r.errors
                     /\ generated_training_plan' = Some(r.value)
                     /\ plan_source' = [plan_source EXCEPT !.training = Some(prompt)]
                     /\ \E i \in DOMAIN Clock : \E j \in i..Len(Clock) :
                           download' = Some(download_button(
                               plan_text(TrainingTitle, Clock[i], r.value),
                               plan_file_name("training", Clock[j])))
                ELSE /\ errors' = InitErrors \o r.errors \o <<MsgTrainingFailed>>
                     /\ download' = Absent
                     /\ UNCHANGED <<generated_training_plan, plan_source>>

\* show_training_page with the form submitted.
show_training_page(form, outcome) ==
    IF ~client_available(gemini_client')
    THEN /\ errors' = InitErrors \o <<MsgUnavailable>>
         /\ calls' = [NoCalls EXCEPT !.init = InitCalls]
         /\ exchange' = Absent
         /\ download' = Absent
         /\ UNCHANGED <<training_data, generated_training_plan, plan_source>>
    ELSE /\ training_data' = Some(form)
         /\ generate_training_plan(outcome)

\* generate_nutrition_plan, reading the nutrition_data the caller has just stored.
generate_nutrition_plan(outcome) ==
    IF nutrition_data' = Absent
    THEN /\ errors' = InitErrors \o <<MsgNoNutritionData>>
         /\ calls' = [NoCalls EXCEPT !.init = InitCalls]
         /\ exchange' = Absent
         /\ download' = Absent
         /\ UNCHANGED <<generated_nutrition_plan, plan_source>>
    ELSE LET prompt == create_nutrition_prompt(nutrition_data'[1])
             r == call_client(gemini_client', outcome)
         IN  /\ calls' = [init |-> InitCalls, create_prompt |-> 1,
                          generate_content |-> r.called, attempts |-> r.attempts]
             /\ exchange' = IF r.called = 0 THEN Absent
                            ELSE Some([prompt |-> prompt, outcome |-> outcome,
                                       raised |-> r.raised, response |-> r.value])
             /\ IF r.raised
                THEN /\ errors' = InitErrors \o r.errors \o <<MsgNutritionException>>
                     /\ download' = Absent
                     /\ UNCHANGED <<generated_nutrition_plan, plan_source>>
                ELSE IF response_ok(r.value)
                THEN /\ errors' = InitErrors \o r.errors
                     /\ generated_nutrition_plan' = Some(r.value)
                     /\ plan_source' = [plan_source EXCEPT !.nutrition = Some(prompt)]
                     /\ \E i \in DOMAIN Clock : \E j \in i..Len(Clock) :
                           download' = Some(download_button(
                               plan_text(NutritionTitle, Clock[i], r.value),
                               plan_file_name("nutrition", Clock[j])))
                ELSE /\ errors' = InitErrors \o r.errors \o <<MsgNutritionFailed>>
                     /\ download' = Absent
                     /\ UNCHANGED <<generated_nutrition_plan, plan_source>>

\* show_nutrition_page with the form submitted.
show_nutrition_page(form, outcome) ==
    IF ~client_available(gemini_client')
    THEN /\ errors' = InitErrors \o <<MsgUnavailable>>
         /\ calls' = [NoCalls EXCEPT !.init = InitCalls]
         /\ exchange' = Absent
         /\ download' = Absent
         /\ UNCHANGED <<nutrition_data, generated_nutrition_plan, plan_source>>
    ELSE IF ~kitchen_equipment_selected(form.kitchen_equipment)
    THEN /\ errors' = InitErrors \o <<MsgKitchenEquipment>>
         /\ calls' = [NoCalls EXCEPT !.init = InitCalls]
         /\ exchange' = Absent
         /\ download' = Absent
         /\ UNCHANGED <<nutrition_data, generated_nutrition_plan, plan_source>>
    ELSE /\ nutrition_data' = Some(form)
         /\ generate_nutrition_plan(outcome)

-----------------------------------------------------------------------------
(* The session. *)

Init ==
    /\ credential \in Credentials
    /\ gemini_client = Absent
    /\ current_page = Absent
    /\ training_data = Absent
    /\ nutrition_data = Absent
    /\ generated_training_plan = Absent
    /\ generated_nutrition_plan = Absent
    /\ page = Home
    /\ errors = <<>>
    /\ calls = NoCalls
    /\ exchange = Absent
    /\ event = Event("connect", Absent)
    /\ download = Absent
    /\ plan_source = [training |-> Absent, nutrition |-> Absent]
    /\ calc = Absent

\* The script has run once: the sidebar and the page's widgets are on screen.
Started == gemini_client # Absent

\* The first run of the script, when the browser connects.
Start ==
    /\ ~Started
    /\ Render(Event("start", Absent), page)
    /\ UNCHANGED current_page

\* The user picks another view in the sidebar radio.
Navigate(p) ==
    /\ Started
    /\ p # page
    /\ Render(Event("navigate", Absent), p)
    /\ UNCHANGED current_page

\* A rerun with nothing submitted: "Generate New Plan", "Save Plan", a reload of the view.
Rerun ==
    /\ Started
    /\ Render(Event("rerun", Absent), page)
    /\ UNCHANGED current_page

\* A home page button: sets current_page and reruns; the radio still decides the view.
PressHomeButton(target) ==
    /\ Started
    /\ page = Home
    /\ current_page' = Some(target)
    /\ Render(Event("home_button", Absent), page)

\* The training form is submitted; the last run rendered it only with a client.
SubmitTraining(form, outcome) ==
    /\ Started
    /\ page = TrainingPlan
    /\ client_available(gemini_client)
    /\ MainInit
    /\ show_training_page(form, outcome)
    /\ event' = Event("submit_training", Some(form))
    /\ UNCHANGED <<credential, current_page, page, nutrition_data,
                   generated_nutrition_plan, calc>>

\* The nutrition form is submitted; the last run rendered it only with a client.
SubmitNutrition(form, outcome) ==
    /\ Started
    /\ page = NutritionPlan
    /\ client_available(gemini_client)
    /\ MainInit
    /\ show_nutrition_page(form, outcome)
    /\ event' = Event("submit_nutrition", Some(form))
    /\ UNCHANGED <<credential, current_page, page, training_data,
                   generated_training_plan, calc>>

Next ==
    \/ Start
    \/ \E p \in Pages : Navigate(p)
    \/ Rerun
    \/ \E target \in {TrainingPlan, NutritionPlan} : PressHomeButton(target)
    \/ \E form \in TrainingForms, outcome \in ServiceOutcomes : SubmitTraining(form, outcome)
    \/ \E form \in NutritionForms, outcome \in ServiceOutcomes : SubmitNutrition(form, outcome)

Spec == Init /\ [][Next]_vars

\* A session's first submission, over every form.
Fresh == event.op \notin {"submit_training", "submit_nutrition"}

FirstNavigate(p) == Fresh /\ Navigate(p)
FirstSubmitTraining(form, outcome) == Fresh /\ SubmitTraining(form, outcome)
FirstSubmitNutrition(form, outcome) == Fresh /\ SubmitNutrition(form, outcome)

NextPrompt ==
    \/ Start
    \/ \E p \in Pages : FirstNavigate(p)
    \/ \E form \in AllTrainingForms, outcome \in ServiceOutcomes :
          FirstSubmitTraining(form, outcome)
    \/ \E form \in AllNutritionForms, outcome \in ServiceOutcomes :
          FirstSubmitNutrition(form, outcome)

SpecPrompt == Init /\ [][NextPrompt]_vars

-----------------------------------------------------------------------------
(* The BMR calculator.  Values are in hundredths of a kilocalorie: every     *)
(* term of the formula is a multiple of 0.25, which binary floating point    *)
(* holds exactly, so the integers below are the floats times 100.            *)

Sexes == {"male", "female"}
Weights == (70 - Spread)..(70 + Spread)
Heights == (170 - Spread)..(170 + Spread)
Ages == (25 - Spread)..(25 + Spread)

\* The female offset added instead of subtracted.
bmr_x100_offset_added(weight, height, age, sex) ==
    1000 * weight + 625 * height - 500 * age + (IF sex = "male" THEN 500 ELSE 16100)

\* Mifflin-St Jeor: 10*weight + 6.25*height - 5*age + 5 (male) or - 161 (female).
bmr_x100(weight, height, age, sex) ==
    1000 * weight + 625 * height - 500 * age + (IF sex = "male" THEN 500 ELSE -16100)

CalculateBMR(weight, height, age, sex) ==
    /\ calc' = Some([weight |-> weight, height |-> height, age |-> age, sex |-> sex,
                     bmr_x100 |-> bmr_x100(weight, height, age, sex)])
    /\ UNCHANGED <<credential, session_state, page, errors, calls, exchange, event,
                   download, plan_source>>

NextBMR ==
    \E weight \in Weights, height \in Heights, age \in Ages, sex \in Sexes :
        CalculateBMR(weight, height, age, sex)

SpecBMR == Init /\ [][NextBMR]_vars

-----------------------------------------------------------------------------
(* Properties. *)

\* The last run was a nutrition submission with no kitchen equipment selected.
EmptyKitchenSubmitted ==
    /\ event.op = "submit_nutrition"
    /\ event.form[1].kitchen_equipment = <<>>

\* The last run made a generation call and the remote service raised.
ServiceRaised == exchange # Absent /\ exchange[1].outcome.raises

\* The last run made a generation call and the remote service returned empty text.
ServiceEmpty ==
    exchange # Absent /\ ~exchange[1].outcome.raises /\ exchange[1].outcome.text = ""

\* The last run was a form submission that passed the page's checks.
AcceptedSubmission ==
    \/ event.op = "submit_training"
    \/ event.op = "submit_nutrition" /\ event.form[1].kitchen_equipment # <<>>

\* The forms are on offer: a further submission is possible.
FormsOffered == gemini_client = Some(GeminiClientObject)

\* C1: a nutrition submission with zero kitchen-equipment selections is rejected
\* with the error message and nothing else happens: no prompt is built, the
\* generation client is not called, and no key of the session state changes.
C1_EmptyKitchenRejected ==
    [][EmptyKitchenSubmitted' =>
          /\ errors' = <<MsgKitchenEquipment>>
          /\ calls'.create_prompt = 0
          /\ calls'.generate_content = 0
          /\ calls'.attempts = 0
          /\ exchange' = Absent
          /\ UNCHANGED session_state]_vars

\* C1 happens: a submission without kitchen equipment was rejected in a session
\* that already holds a nutrition profile and plan.
C1_Witness ==
    /\ EmptyKitchenSubmitted
    /\ errors = <<MsgKitchenEquipment>>
    /\ nutrition_data # Absent
    /\ generated_nutrition_plan # Absent

\* C2: when the remote service raises, the caller gets None and no exception, the
\* error is shown, neither plan key is written, the submitted profile is the one
\* stored for its domain, and the forms stay on offer.
C2_ServiceFailureContained ==
    [][ServiceRaised' =>
          /\ ~exchange'[1].raised
          /\ exchange'[1].response = None
          /\ MsgContentError \in {errors'[i] : i \in DOMAIN errors'}
          /\ UNCHANGED <<generated_training_plan, generated_nutrition_plan>>
          /\ event'.op = "submit_training" => training_data' = event'.form
          /\ event'.op = "submit_nutrition" => nutrition_data' = event'.form
          /\ FormsOffered'
          /\ page' = page]_vars

\* C2 happens: the service raised on a training submission made after a plan
\* had been generated.
C2_Witness ==
    /\ ServiceRaised
    /\ event.op = "submit_training"
    /\ training_data = event.form
    /\ generated_training_plan # Absent

\* Where each list-valued field stands in its prompt: the element and the label.
NutritionListFields ==
    [food_allergies    |-> [line |-> 19, label |-> "- Food Allergies/Intolerances: "],
     dislikes          |-> [line |-> 20, label |-> "- Foods Disliked: "],
     preferences       |-> [line |-> 21, label |-> "- Food Preferences: "],
     kitchen_equipment |-> [line |-> 30, label |-> "- Kitchen Equipment: "]]

TrainingListFields ==
    [secondary_goals     |-> [line |-> 15, label |-> "- Secondary Goals: "],
     equipment           |-> [line |-> 22, label |-> "- Available Equipment: "],
     workout_types       |-> [line |-> 23, label |-> "- Preferred Workout Types: "],
     exercise_experience |-> [line |-> 24, label |-> "- Exercise Experience: "]]

\* Where each free-text field stands in its prompt, and the default its get names.
NutritionTextFields ==
    [health_conditions |-> [line |-> 11, label |-> "- Health Conditions: ",
                            fallback |-> "None"],
     eating_schedule   |-> [line |-> 29, label |-> "- Eating Schedule: ",
                            fallback |-> "Flexible"],
     supplements       |-> [line |-> 32, label |-> "- Current Supplements: ",
                            fallback |-> "None"],
     special_notes     |-> [line |-> 34, label |-> "SPECIAL NOTES: ",
                            fallback |-> "None"]]

TrainingTextFields ==
    [medical_conditions |-> [line |-> 11, label |-> "- Medical Conditions/Injuries: ",
                             fallback |-> "None"],
     rest_days          |-> [line |-> 28, label |-> "- Rest Day Preferences: ",
                             fallback |-> "Flexible"],
     special_notes      |-> [line |-> 30, label |-> "SPECIAL NOTES: ",
                             fallback |-> "None"]]

\* The prompt of the last run's generation call came from this domain's profile.
TrainingPromptSent == exchange # Absent /\ event.op = "submit_training"
NutritionPromptSent == exchange # Absent /\ event.op = "submit_nutrition"

\* C3: in the prompt sent for a profile, every list-valued field whose selection
\* is empty shows the fallback literal "None" after its label.
C3_EmptyListShowsNone ==
    /\ TrainingPromptSent =>
          \A f \in DOMAIN TrainingListFields :
              training_data[1][f] = <<>> =>
                  exchange[1].prompt[TrainingListFields[f].line]
                      = TrainingListFields[f].label \o "None"
    /\ NutritionPromptSent =>
          \A f \in DOMAIN NutritionListFields :
              nutrition_data[1][f] = <<>> =>
                  exchange[1].prompt[NutritionListFields[f].line]
                      = NutritionListFields[f].label \o "None"

\* C4: in the prompt sent for a submitted profile, every free-text field the user
\* left blank shows its fallback literal ("None", or "Flexible") after its label.
C4_BlankTextShowsFallback ==
    /\ TrainingPromptSent =>
          \A f \in DOMAIN TrainingTextFields :
              training_data[1][f] = "" =>
                  exchange[1].prompt[TrainingTextFields[f].line]
                      = TrainingTextFields[f].label \o TrainingTextFields[f].fallback
    /\ NutritionPromptSent =>
          \A f \in DOMAIN NutritionTextFields :
              nutrition_data[1][f] = "" =>
                  exchange[1].prompt[NutritionTextFields[f].line]
                      = NutritionTextFields[f].label \o NutritionTextFields[f].fallback

\* C5: with a missing credential, or one the client cannot be built with, the
\* session runs on with None as its client and the service shown unavailable, and
\* after every run no prompt has been built, no generation call made and no
\* profile or plan key written.
C5_UnavailableDisablesGeneration ==
    (credential # "ok" /\ Started) =>
        /\ gemini_client = Some(None)
        /\ api_status(gemini_client) = "AI Service Unavailable"
        /\ page \in {TrainingPlan, NutritionPlan} => errors = <<MsgUnavailable>>
        /\ calls.create_prompt = 0
        /\ calls.generate_content = 0
        /\ calls.attempts = 0
        /\ exchange = Absent
        /\ training_data = Absent
        /\ nutrition_data = Absent
        /\ generated_training_plan = Absent
        /\ generated_nutrition_plan = Absent

\* C5 happens: a session without a credential has gone to a form's view and
\* back to it after the home page's button was pressed.
C5_Witness ==
    /\ credential = "missing"
    /\ gemini_client = Some(None)
    /\ current_page # Absent
    /\ page = TrainingPlan
    /\ errors = <<MsgUnavailable>>

\* C6: a call of the generation client makes exactly one attempt, whatever the
\* service does, and a run makes exactly one such call when it is an accepted
\* submission and none otherwise.
C6_OneAttemptPerSubmission ==
    /\ calls.attempts = calls.generate_content
    /\ calls.generate_content = IF AcceptedSubmission THEN 1 ELSE 0

\* C6 happens: the service raised on an accepted submission, and one attempt was made.
C6_Witness ==
    /\ AcceptedSubmission
    /\ ServiceRaised
    /\ calls.generate_content = 1
    /\ calls.attempts = 1

\* C7: when the service returns empty text, the failure message is shown, neither
\* plan key is written and the submitted profile is the one stored for its domain.
C7_EmptyCompletionIsFailure ==
    [][ServiceEmpty' =>
          /\ event'.op = "submit_training" =>
                errors' = <<MsgTrainingFailed>> /\ training_data' = event'.form
          /\ event'.op = "submit_nutrition" =>
                errors' = <<MsgNutritionFailed>> /\ nutrition_data' = event'.form
          /\ UNCHANGED <<generated_training_plan, generated_nutrition_plan>>]_vars

\* C7 happens: the service returned empty text on a nutrition submission.
C7_Witness ==
    /\ ServiceEmpty
    /\ event.op = "submit_nutrition"
    /\ errors = <<MsgNutritionFailed>>
    /\ nutrition_data = event.form

C9_PlanImpliesValidProfile ==
    /\ generated_nutrition_plan # Absent =>
          /\ nutrition_data # Absent
          /\ nutrition_data[1].kitchen_equipment # <<>>
    /\ generated_training_plan # Absent => training_data # Absent

\* C9 happens: a nutrition plan has just been generated for an accepted profile.
C9_Witness ==
    /\ event.op = "submit_nutrition"
    /\ exchange # Absent
    /\ generated_nutrition_plan = Some(exchange[1].response)
    /\ nutrition_data = event.form
    /\ Len(nutrition_data[1].kitchen_equipment) > 0

\* C13: the first run of main() installs the client, or None, under gemini_client
\* with one call of the initialiser; in every later run the initialiser is not
\* called and the stored value does not change, also when it is None.
C13_ClientInitialisedOnce ==
    [][/\ gemini_client = Absent =>
              /\ gemini_client' \in {Some(GeminiClientObject), Some(None)}
              /\ calls'.init = 1
       /\ gemini_client # Absent =>
              /\ gemini_client' = gemini_client
              /\ calls'.init = 0]_vars

\* C13 happens: a session whose stored client is None has been rerun by a
\* navigation after the home page's button was pressed.
C13_Witness ==
    /\ gemini_client = Some(None)
    /\ current_page # Absent
    /\ event.op = "navigate"
    /\ calls.init = 0

\* C14: after a home page button is pressed, the next render shows the view the
\* button names.
C14_HomeButtonShowsView ==
    event.op = "home_button" => page = current_page[1]

\* The last run submitted a domain's form and the service returned a text with content.
TrainingSucceeded ==
    /\ event.op = "submit_training"
    /\ exchange # Absent
    /\ ~exchange[1].outcome.raises
    /\ exchange[1].outcome.text # ""

NutritionSucceeded ==
    /\ event.op = "submit_nutrition"
    /\ exchange # Absent
    /\ ~exchange[1].outcome.raises
    /\ exchange[1].outcome.text # ""

\* C15 as stated: a stored plan is the completion obtained for the prompt built
\* from the profile now stored for its domain.
C15_PlanIsOfStoredProfile ==
    /\ generated_training_plan # Absent =>
          plan_source.training = Some(create_training_prompt(training_data[1]))
    /\ generated_nutrition_plan # Absent =>
          plan_source.nutrition = Some(create_nutrition_prompt(nutrition_data[1]))

\* C15 as amended: a stored plan is the completion obtained for the prompt built
\* from the profile stored when its domain's latest successful generation ran; a
\* run that is no successful generation of the domain leaves the plan and the
\* prompt it came from as they were, whatever it does to the stored profile.
C15_PlanIsOfLastSuccessfulProfile ==
    [][/\ TrainingSucceeded' =>
              /\ exchange'[1].prompt = create_training_prompt(training_data'[1])
              /\ generated_training_plan' = Some(Str(exchange'[1].outcome.text))
              /\ plan_source'.training = Some(exchange'[1].prompt)
       /\ ~TrainingSucceeded' =>
              /\ generated_training_plan' = generated_training_plan
              /\ plan_source'.training = plan_source.training
       /\ NutritionSucceeded' =>
              /\ exchange'[1].prompt = create_nutrition_prompt(nutrition_data'[1])
              /\ generated_nutrition_plan' = Some(Str(exchange'[1].outcome.text))
              /\ plan_source'.nutrition = Some(exchange'[1].prompt)
       /\ ~NutritionSucceeded' =>
              /\ generated_nutrition_plan' = generated_nutrition_plan
              /\ plan_source'.nutrition = plan_source.nutrition
       /\ (generated_training_plan' = Absent) = (plan_source'.training = Absent)
       /\ (generated_nutrition_plan' = Absent) = (plan_source'.nutrition = Absent)]_vars

\* C15 happens: a training submission failed after a plan had been stored for
\* another profile, so the stored plan is not of the stored profile.
C15_Witness ==
    /\ event.op = "submit_training"
    /\ exchange # Absent
    /\ ~TrainingSucceeded
    /\ generated_training_plan # Absent
    /\ plan_source.training # Some(create_training_prompt(training_data[1]))

\* The instants of Clock as the export must show them: %Y-%m-%d %H:%M:%S and %Y%m%d.
ExpectedTimestamp == <<"2025-12-31 23:59:59", "2026-01-01 00:00:05">>
ExpectedDate == <<"20251231", "20260101">>

\* The export of a completion: title, timestamp, body, footer, under the domain's
\* file name, with the text written at instant i and the file named at instant j.
IsExport(offer, domain, title, body, i, j) ==
    /\ offer # Absent
    /\ offer[1].mime = "text/plain"
    /\ offer[1].data = << title,
                          "Generated on: " \o ExpectedTimestamp[i],
                          "",
                          body,
                          "",
                          "---",
                          "Generated by AI Fitness Coach" >>
    /\ offer[1].file_name = domain \o "_plan_" \o ExpectedDate[j] \o ".txt"

CalculatedReference(sex) ==
    /\ calc # Absent
    /\ calc[1].weight = 70 /\ calc[1].height = 170 /\ calc[1].age = 25
    /\ calc[1].sex = sex

\* C12 as stated: for 70 kg, 170 cm and 25 years the calculator returns 1673
\* (male) and 1507 (female) within rounding to zero decimal places.
C12_ReferenceValuesAsStated ==
    /\ CalculatedReference("male") =>
          calc[1].bmr_x100 >= 167300 - 50 /\ calc[1].bmr_x100 <= 167300 + 50
    /\ CalculatedReference("female") =>
          calc[1].bmr_x100 >= 150700 - 50 /\ calc[1].bmr_x100 <= 150700 + 50

\* C12 amended: the calculator returns 1642.5 (male) and 1476.5 (female) for
\* 70 kg, 170 cm and 25 years, and from there 10 more per kilogram, 6.25 more
\* per centimetre and 5 less per year.
C12_MifflinStJeor ==
    calc # Absent =>
        LET base == IF calc[1].sex = "male" THEN 164250 ELSE 147650
        IN  calc[1].bmr_x100 = base + 1000 * (calc[1].weight - 70)
                                    + 625 * (calc[1].height - 170)
                                    - 500 * (calc[1].age - 25)

\* C12 happens: the calculator has run on the female reference input.
C12_Witness == CalculatedReference("female") /\ calc[1].bmr_x100 = 147650

====
